---- MODULE Spec2Model ----
(***************************************************************************)
(* The Intcode machine of src/int_code/machine.rs: the decoder              *)
(* (_generate_operation_vec, _create_addressing_mode, _parse_slice), the    *)
(* operand access (_read_memory, _write_memory, _read_input,                *)
(* _write_output) and the loop of _run_machine, one action per Command.     *)
(*                                                                         *)
(* Representation.  A Vec<i32> is a sequence, cell k of the Vec is element  *)
(* k+1.  An i32 is an integer of [I32Min, I32Max].  A usize is written as   *)
(* the signed integer with the same two's-complement bit pattern, so the    *)
(* usize 2^64 - k (what `v as usize` gives for v = -k) is written -k; the   *)
(* order of usize values is UsizeLess.  A panic of the Rust program is the  *)
(* status "panicked" with its cause in fault.                               *)
(***************************************************************************)
EXTENDS Integers, Sequences, FiniteSets, TLC

INSTRUCTION_LENGTH == 5

I32Max == 2147483647

I32Min == -I32Max - 1

(* ------------------------------------------------------------------ *)
(* Bounds of the model                                                  *)
(* ------------------------------------------------------------------ *)

\* commands executed in one run (the loop of _run_machine is cut here)
MaxSteps == 8

\* largest mode digit of the generated instruction words
MaxModeDigit == 2

\* the I/O port returns a value of -1 .. MaxInput from read()
MaxInput == 9

(* ------------------------------------------------------------------ *)
(* usize and i32 arithmetic                                             *)
(* ------------------------------------------------------------------ *)

\* a < b for two usize values in their two's-complement writing
UsizeLess(a, b) == IF (a < 0) = (b < 0) THEN a < b ELSE b < 0

\* pos is an index of the Vec mem
InBounds(mem, pos) == pos >= 0 /\ pos < Len(mem)

\* mem[pos] for an index in bounds
Cell(mem, pos) == mem[pos + 1]

\* a + b wrapped to 32 bits (release build), for a + b outside the i32 range
WrapAdd(a, b) == IF a > 0 THEN (a + I32Min) + (b + I32Min) ELSE (a - I32Min) + (b - I32Min)

AddOverflows(a, b) == \/ (a > 0 /\ b > 0 /\ a > I32Max - b)
                      \/ (a < 0 /\ b < 0 /\ a < I32Min - b)

\* the low 16 bits and the next 16 bits of an i32's bit pattern
Lo16(a) == a % 65536

Hi16(a) == (a \div 65536) % 65536

\* (x * y) % 65536 for x, y in 0 .. 65535, without leaving 32 bits
MulLow16(x, y) == ((x * (y % 256)) + ((x * (y \div 256)) % 256) * 256) % 65536

\* (x * y) \div 65536 for x, y in 0 .. 65535, modulo 65536
MulCarry16(x, y) ==
    LET p == x * (y % 256)
        q == x * (y \div 256)
    IN  (((p + (q % 256) * 256) \div 65536) + (q \div 256)) % 65536

\* a * b wrapped to 32 bits (release build)
WrapMul(a, b) ==
    LET lo == MulLow16(Lo16(a), Lo16(b))
        hi == (MulCarry16(Lo16(a), Lo16(b)) + MulLow16(Hi16(a), Lo16(b))
                 + MulLow16(Lo16(a), Hi16(b))) % 65536
    IN  IF hi >= 32768 THEN (hi - 65536) * 65536 + lo ELSE hi * 65536 + lo

\* a * b lies outside the i32 range
MulOverflows(a, b) ==
    IF a = 0 \/ b = 0 THEN FALSE
    ELSE IF a > 0 /\ b > 0 THEN a > I32Max \div b
    ELSE IF a < 0 /\ b < 0 THEN a = I32Min \/ b = I32Min \/ (-a) > I32Max \div (-b)
    ELSE LET n == IF a < 0 THEN a ELSE b
             p == IF a < 0 THEN b ELSE a
         IN  n < (I32Min + (p - 1)) \div p

\* The outcomes of an i32 `+`: the sum; on overflow a panic (debug build) or
\* the wrapped sum (release build).
AddI32(a, b) ==
    IF AddOverflows(a, b)
    THEN {[ok |-> FALSE, value |-> 0], [ok |-> TRUE, value |-> WrapAdd(a, b)]}
    ELSE {[ok |-> TRUE, value |-> a + b]}

\* The outcomes of an i32 `*`, likewise.
MulI32(a, b) ==
    IF MulOverflows(a, b)
    THEN {[ok |-> FALSE, value |-> 0], [ok |-> TRUE, value |-> WrapMul(a, b)]}
    ELSE {[ok |-> TRUE, value |-> a * b]}

(* ------------------------------------------------------------------ *)
(* Instruction decoder                                                  *)
(* ------------------------------------------------------------------ *)

DigitChars == <<"0", "1", "2", "3", "4", "5", "6", "7", "8", "9">>

\* char::to_digit(10): the digit's value, or -1 for None
to_digit(c) == IF \E d \in 0..9 : DigitChars[d + 1] = c
               THEN CHOOSE d \in 0..9 : DigitChars[d + 1] = c
               ELSE -1

\* the decimal digits of n >= 0, most significant first
RECURSIVE NatString(_)
NatString(n) == IF n < 10 THEN <<DigitChars[n + 1]>>
                ELSE Append(NatString(n \div 10), DigitChars[(n % 10) + 1])

\* the decimal digits of -n for n < 0 (no negation of n, which i32::MIN lacks)
RECURSIVE NegString(_)
NegString(n) ==
    LET q == IF n % 10 = 0 THEN n \div 10 ELSE (n \div 10) + 1
        d == (q * 10) - n
    IN  IF q = 0 THEN <<DigitChars[d + 1]>> ELSE Append(NegString(q), DigitChars[d + 1])

\* i32::to_string
to_string(n) == IF n < 0 THEN <<"-">> \o NegString(n) ELSE NatString(n)

\* the value of a string of decimal digits
RECURSIVE DigitsValue(_)
DigitsValue(s) == IF s = <<>> THEN 0
                  ELSE DigitsValue(SubSeq(s, 1, Len(s) - 1)) * 10 + to_digit(s[Len(s)])

AllDigits(s) == \A k \in 1..Len(s) : to_digit(s[k]) >= 0

\* str::parse::<i32>().ok(): <<value>>, or <<>> for None.  The strings parsed
\* here have at most seven digits, so the value is always in range.
parse_i32(s) ==
    IF s = <<>> THEN <<>>
    ELSE IF s[1] = "-" \/ s[1] = "+"
         THEN IF Len(s) > 1 /\ AllDigits(Tail(s))
              THEN <<(IF s[1] = "-" THEN -1 ELSE 1) * DigitsValue(Tail(s))>>
              ELSE <<>>
    ELSE IF AllDigits(s) THEN <<DigitsValue(s)>> ELSE <<>>

\* a string of n "0" characters
Zeros(n) == [k \in 1..n |-> "0"]

\* Machine::_generate_operation_vec: <<opcode, read_mode_1, read_mode_2,
\* read_mode_3>>, or <<>> for None.
_generate_operation_vec(instruction) ==
    LET s == to_string(instruction)
        instruc_str == IF Len(s) < INSTRUCTION_LENGTH
                       THEN Zeros(INSTRUCTION_LENGTH - Len(s)) \o s
                       ELSE s
        read_mode_3 == to_digit(instruc_str[1])
        read_mode_2 == to_digit(instruc_str[2])
        read_mode_1 == to_digit(instruc_str[3])
        opcode == parse_i32(SubSeq(instruc_str, 4, Len(instruc_str)))
    IN  IF read_mode_3 < 0 \/ read_mode_2 < 0 \/ read_mode_1 < 0 \/ opcode = <<>>
        THEN <<>>
        ELSE <<opcode[1], read_mode_1, read_mode_2, read_mode_3>>

\* Machine::_create_addressing_mode.  `value as usize` keeps the bit pattern
\* (sign extension), which in the writing of usize used here is value itself.
_create_addressing_mode(mode, value) ==
    IF mode = 1 THEN [tag |-> "Immediate", value |-> value]
    ELSE IF mode = 0 THEN [tag |-> "Register", value |-> value]
    ELSE [tag |-> "Panic", value |-> mode]

(* ------------------------------------------------------------------ *)
(* Command resolver                                                     *)
(* ------------------------------------------------------------------ *)

\* Option<(Command, usize)> as a record: tag "Some" with the Command (op, its
\* AddressingMode operands args, the usize pos of IoRead/IoWrite) and the
\* length len; tag "None"; or tag "Panic" when building it panics (why).
NoneCommand == [tag |-> "None", why |-> "", op |-> "", args |-> <<>>, pos |-> 0, len |-> 0]

PanicCommand(why) == [NoneCommand EXCEPT !.tag = "Panic", !.why = why]

SomeCommand(op, args, pos, len) ==
    [tag |-> "Some", why |-> "", op |-> op, args |-> args, pos |-> pos, len |-> len]

\* ModeCommand as it would be with a missing operand cell taken as 0
ModeCommand_PadsMissing(op, op_vec, slice, n, len) ==
    LET cell(k) == IF Len(slice) < k + 1 THEN 0 ELSE slice[k + 1]
        arg(k) == _create_addressing_mode(op_vec[k + 1], cell(k))
        bad == {k \in 1..n : arg(k).tag = "Panic"}
    IN  IF bad = {} THEN SomeCommand(op, [k \in 1..n |-> arg(k)], 0, len)
        ELSE PanicCommand("UnrecognisedMemoryMode")

\* The Command with n AddressingMode operands: operand k is built from
\* slice[k] (a panic when the slice is shorter) and mode digit k (a panic of
\* _create_addressing_mode when it is neither 0 nor 1), in operand order.
ModeCommand(op, op_vec, slice, n, len) ==
    LET arg(k) == _create_addressing_mode(op_vec[k + 1], slice[k + 1])
        bad == {k \in 1..n : Len(slice) < k + 1 \/ arg(k).tag = "Panic"}
        first == CHOOSE k \in bad : \A j \in bad : k <= j
    IN  IF bad = {} THEN SomeCommand(op, [k \in 1..n |-> arg(k)], 0, len)
        ELSE IF Len(slice) < first + 1 THEN PanicCommand("IndexOutOfBounds")
        ELSE PanicCommand("UnrecognisedMemoryMode")

\* The Command IoRead(slice[1] as usize) or IoWrite(slice[1] as usize).
IoCommand(op, slice) ==
    IF Len(slice) < 2 THEN PanicCommand("IndexOutOfBounds")
    ELSE SomeCommand(op, <<>>, slice[2], 2)

\* Machine::_parse_slice
_parse_slice(slice) ==
    IF Len(slice) < 1 THEN PanicCommand("IndexOutOfBounds")
    ELSE LET op_vec == _generate_operation_vec(slice[1]) IN
         IF op_vec = <<>> THEN NoneCommand
         ELSE CASE op_vec[1] = 1 -> ModeCommand("Add", op_vec, slice, 3, 4)
                [] op_vec[1] = 2 -> ModeCommand("Multiply", op_vec, slice, 3, 4)
                [] op_vec[1] = 3 -> IoCommand("IoRead", slice)
                [] op_vec[1] = 4 -> IoCommand("IoWrite", slice)
                [] op_vec[1] = 5 -> ModeCommand("JmpIfTrue", op_vec, slice, 2, 3)
                [] op_vec[1] = 6 -> ModeCommand("JmpIfFalse", op_vec, slice, 2, 3)
                [] op_vec[1] = 7 -> ModeCommand("LessThan", op_vec, slice, 3, 4)
                [] op_vec[1] = 8 -> ModeCommand("Equal", op_vec, slice, 3, 4)
                [] op_vec[1] = 99 -> SomeCommand("End", <<>>, 0, 1)
                [] OTHER -> NoneCommand

\* The first fetch of _run_machine, &self.state[0 .. 4]: a panic when the
\* Vec has fewer than four cells.
FirstFetch(mem) ==
    IF Len(mem) < 4 THEN PanicCommand("SliceRange")
    ELSE _parse_slice(SubSeq(mem, 1, 4))

\* Fetch as it would be if a counter outside the Vec ended the loop
Fetch_StopsSilently(mem, pc) ==
    IF ~InBounds(mem, pc) THEN {NoneCommand}
    ELSE {_parse_slice(SubSeq(mem, pc + 1, IF pc + 4 < Len(mem) THEN pc + 4 ELSE Len(mem)))}

\* The fetch that ends a loop iteration,
\* &self.state[pc .. min(pc + 4, self.state.len())]: the set of outcomes.
\* pc + 4 overflows usize for the four largest usize values (a panic in a
\* debug build; wrapped in a release build, where the range then starts past
\* its end); a range that starts past the end of the Vec panics.
Fetch(mem, pc) ==
    IF pc < 0 /\ pc >= -4 THEN {PanicCommand("ArithmeticOverflow"), PanicCommand("SliceRange")}
    ELSE IF UsizeLess(Len(mem), pc) THEN {PanicCommand("SliceRange")}
    ELSE {_parse_slice(SubSeq(mem, pc + 1, IF pc + 4 < Len(mem) THEN pc + 4 ELSE Len(mem)))}

(* ------------------------------------------------------------------ *)
(* Operand access                                                       *)
(* ------------------------------------------------------------------ *)

\* _read_memory as it would be with an Immediate operand used as an address
_read_memory_AsAddress(mem, addressing_mode) ==
    IF InBounds(mem, addressing_mode.value)
    THEN [ok |-> TRUE, value |-> Cell(mem, addressing_mode.value)]
    ELSE [ok |-> FALSE, value |-> 0]

\* Machine::_read_memory: the value read, or a panic of self.state[pos]
_read_memory(mem, addressing_mode) ==
    IF addressing_mode.tag = "Immediate" THEN [ok |-> TRUE, value |-> addressing_mode.value]
    ELSE IF InBounds(mem, addressing_mode.value)
         THEN [ok |-> TRUE, value |-> Cell(mem, addressing_mode.value)]
         ELSE [ok |-> FALSE, value |-> 0]

\* _write_memory as it would be with the cell after pos written
_write_memory_OffByOne(mem, addressing_mode, value) ==
    IF addressing_mode.tag = "Immediate" THEN [ok |-> FALSE, why |-> "CantWriteValue", mem |-> mem]
    ELSE IF InBounds(mem, addressing_mode.value) /\ InBounds(mem, addressing_mode.value + 1)
         THEN [ok |-> TRUE, why |-> "", mem |-> [mem EXCEPT ![addressing_mode.value + 2] = value]]
         ELSE [ok |-> FALSE, why |-> "IndexOutOfBounds", mem |-> mem]

\* _write_memory as it would be with the write to an Immediate skipped
_write_memory_SkipsImmediate(mem, addressing_mode, value) ==
    IF addressing_mode.tag = "Immediate" THEN [ok |-> TRUE, why |-> "", mem |-> mem]
    ELSE IF InBounds(mem, addressing_mode.value)
         THEN [ok |-> TRUE, why |-> "", mem |-> [mem EXCEPT ![addressing_mode.value + 1] = value]]
         ELSE [ok |-> FALSE, why |-> "IndexOutOfBounds", mem |-> mem]

\* Machine::_write_memory: the Vec after the write, or a panic (why)
_write_memory(mem, addressing_mode, value) ==
    IF addressing_mode.tag = "Immediate" THEN [ok |-> FALSE, why |-> "CantWriteValue", mem |-> mem]
    ELSE IF InBounds(mem, addressing_mode.value)
         THEN [ok |-> TRUE, why |-> "", mem |-> [mem EXCEPT ![addressing_mode.value + 1] = value]]
         ELSE [ok |-> FALSE, why |-> "IndexOutOfBounds", mem |-> mem]

\* Machine::_read_input, after self.io.read() returned input: the Vec after
\* self.state[pos] = input, or a panic
_read_input(mem, pos, input) ==
    IF InBounds(mem, pos)
    THEN [ok |-> TRUE, mem |-> [mem EXCEPT ![pos + 1] = input]]
    ELSE [ok |-> FALSE, mem |-> mem]

\* _write_output as it would be with the operand delivered as a literal
_write_output_Literal(mem, pos) == [written |-> <<pos>>, eprinted |-> <<>>]

\* _write_output as it would be with the value delivered twice
_write_output_Twice(mem, pos) ==
    IF InBounds(mem, pos)
    THEN [written |-> <<Cell(mem, pos), Cell(mem, pos)>>, eprinted |-> <<>>]
    ELSE [written |-> <<>>, eprinted |-> <<pos>>]

\* Machine::_write_output: the values passed to self.io.write and the
\* positions reported by eprintln!
_write_output(mem, pos) ==
    IF InBounds(mem, pos)
    THEN [written |-> <<Cell(mem, pos)>>, eprinted |-> <<>>]
    ELSE [written |-> <<>>, eprinted |-> <<pos>>]

\* the closures given to _two_arg_test, each written as its body, and
\* their application
CallTest(test, v1, v2) == IF test = "v1 < v2" THEN v1 < v2 ELSE v1 = v2

\* Machine::_two_arg_test with the closure test: <<result>>, or <<>> when
\* a read panics
_two_arg_test(mem, arg1_mode, arg2_mode, test) ==
    LET arg1 == _read_memory(mem, arg1_mode)
        arg2 == _read_memory(mem, arg2_mode)
    IN  IF arg1.ok /\ arg2.ok THEN <<CallTest(test, arg1.value, arg2.value)>> ELSE <<>>

(* ------------------------------------------------------------------ *)
(* Memory images the machine is constructed with                        *)
(* ------------------------------------------------------------------ *)

RoundTripProgram == <<1, 9, 10, 3, 2, 3, 11, 0, 99, 30, 40, 50>>

SelfAddProgram == <<1, 0, 0, 0, 99>>

EqualPositionProgram == <<3, 9, 8, 9, 10, 9, 4, 9, 99, -1, 8>>

EqualImmediateProgram == <<3, 3, 1108, -1, 8, 3, 4, 3, 99>>

JumpPositionProgram == <<3, 12, 6, 12, 15, 1, 13, 14, 13, 4, 13, 99, -1, 0, 1, 9>>

JumpImmediateProgram == <<3, 3, 1105, -1, 9, 1101, 0, 0, 12, 4, 12, 99, 1>>

ImmediateAddProgram == <<1101, 100, -1, 4, 0>>

PositionAddProgram == <<1, 5, 6, 4, 0, 100, -1>>

NamedPrograms == {RoundTripProgram, SelfAddProgram, EqualPositionProgram,
                  EqualImmediateProgram, JumpPositionProgram, JumpImmediateProgram,
                  ImmediateAddProgram, PositionAddProgram}

\* opcodes of the generated instruction words: the nine of the machine and
\* two it does not know
Opcodes == (0..9) \cup {99}

ModeDigits == 0..MaxModeDigit

\* instruction words of up to five digits, and words of other shapes:
\* negative ones and ones of six and seven digits
Words == {op + 100 * m1 + 1000 * m2 + 10000 * m3 :
             op \in Opcodes, m1 \in ModeDigits, m2 \in ModeDigits, m3 \in ModeDigits}
         \cup {-1, -99, -1101, 100001, 1100099, 1001104}

\* operand cells: a negative value, zero, an address of the tail that is
\* also an opcode, and a value past the end that is also an opcode
Operands == {-1, 0, 4, 99}

\* what follows the first four cells
Tails == {<<>>, <<99>>, <<4, 4, 99>>, <<3, 6, 0, 99>>, <<3, 0, 4, 0, 1>>}

GeneratedPrograms == {<<w, a, b, c>> \o t : w \in Words, a \in Operands, b \in Operands,
                                             c \in Operands, t \in Tails}

\* images of fewer than four cells
ShortPrograms == {<<99>>, <<4, 0>>, <<3, 0, 99>>, <<1, 0, 0>>}

\* images whose second instruction lacks cells for its operands
TruncatedPrograms == {<<4, 0, 1, 0>>, <<4, 0, 201, 0>>, <<4, 0, 5, 0>>, <<4, 0, 1105, 0>>,
                      <<1101, 1, 2, 0, 3>>, <<1101, 1, 3, 0, 4>>, <<1101, 3, 4, 0, 8, 0, 0>>}

\* images whose arithmetic leaves the i32 range
OverflowPrograms == {<<1101, 2147483647, 1, 0, 99>>, <<1102, 65536, 65537, 0, 99>>,
                     <<1102, -65536, 32769, 5, 4, 0, 99>>}

Programs == NamedPrograms \cup GeneratedPrograms \cup ShortPrograms \cup OverflowPrograms
              \cup TruncatedPrograms

InputValues == (-1)..MaxInput

(* ------------------------------------------------------------------ *)
(* The machine                                                          *)
(* ------------------------------------------------------------------ *)

VARIABLES
    program,          \* the Vec given to Machine::new (kept for reference)
    state,            \* Machine.state
    program_counter,  \* the local of _run_machine
    parsed_command,   \* the local of _run_machine
    status,           \* "new", "running", "halted" (End), "exited" (None), "panicked"
    fault,            \* the cause of the panic
    run_result,       \* <<v>> once _run_machine returned v
    execute_result,   \* what execute returned to its caller
    io_read,          \* the values self.io.read() returned, in call order
    io_written,       \* the values given to self.io.write, in call order
    eprinted,         \* the positions reported by eprintln!, in order
    trace             \* the commands executed: [pc, word, op], in order

vars == <<program, state, program_counter, parsed_command, status, fault, run_result,
          execute_result, io_read, io_written, eprinted, trace>>

\* Machine::new
Init ==
    /\ program \in Programs
    /\ state = program
    /\ program_counter = 0
    /\ parsed_command = NoneCommand
    /\ status = "new"
    /\ fault = ""
    /\ run_result = <<>>
    /\ execute_result = [returned |-> FALSE, value |-> <<>>]
    /\ io_read = <<>>
    /\ io_written = <<>>
    /\ eprinted = <<>>
    /\ trace = <<>>

\* Machine::execute around _run_machine: the i32 that _run_machine returns
\* is dropped and the caller gets the unit value (), the empty tuple.
execute(run_machine_value) == [returned |-> TRUE, value |-> <<>>]

\* the loop is in its body with the Command op at hand
Running(op) ==
    /\ status = "running"
    /\ parsed_command.tag = "Some"
    /\ parsed_command.op = op
    /\ Len(trace) < MaxSteps

\* the trace with the Command at hand added: where it was fetched, the
\* instruction word there, and which Command it is
Executed == Append(trace, [pc |-> program_counter, word |-> Cell(state, program_counter),
                           op |-> parsed_command.op])

\* a panic inside the body of the loop: the stack unwinds, nothing returns
Panics(why) ==
    /\ status' = "panicked"
    /\ fault' = why
    /\ trace' = Executed
    /\ UNCHANGED <<program, state, program_counter, parsed_command, run_result,
                   execute_result>>

\* Continues as it would be with the next Command decoded from the Vec as
\* it was before the arm ran
Continues_DecodedAhead(mem, pc) ==
    \E next \in Fetch(state, pc) :
        /\ state' = mem
        /\ program_counter' = pc
        /\ parsed_command' = next
        /\ status' = IF next.tag = "Panic" THEN "panicked" ELSE "running"
        /\ fault' = IF next.tag = "Panic" THEN next.why ELSE fault
        /\ trace' = Executed
        /\ UNCHANGED <<program, run_result, execute_result>>

\* the end of a loop iteration: the Vec is mem, the counter is pc, and the
\* next Command is fetched from them
Continues(mem, pc) ==
    \E next \in Fetch(mem, pc) :
        /\ state' = mem
        /\ program_counter' = pc
        /\ parsed_command' = next
        /\ status' = IF next.tag = "Panic" THEN "panicked" ELSE "running"
        /\ fault' = IF next.tag = "Panic" THEN next.why ELSE fault
        /\ trace' = Executed
        /\ UNCHANGED <<program, run_result, execute_result>>

\* execute is called: _run_machine sets program_counter and fetches the
\* first Command
Execute ==
    /\ status = "new"
    /\ LET first == FirstFetch(state) IN
        /\ program_counter' = 0
        /\ parsed_command' = first
        /\ status' = IF first.tag = "Panic" THEN "panicked" ELSE "running"
        /\ fault' = IF first.tag = "Panic" THEN first.why ELSE fault
    /\ UNCHANGED <<program, state, run_result, execute_result, io_read, io_written,
                   eprinted, trace>>

\* `while let Some(command) = parsed_command` fails: _run_machine returns 0
ReturnZero ==
    /\ status = "running"
    /\ parsed_command.tag = "None"
    /\ status' = "exited"
    /\ run_result' = <<0>>
    /\ execute_result' = execute(0)
    /\ UNCHANGED <<program, state, program_counter, parsed_command, fault, io_read,
                   io_written, eprinted, trace>>

\* Command::End() => return self.state[0]
End ==
    /\ Running("End")
    /\ status' = "halted"
    /\ run_result' = <<Cell(state, 0)>>
    /\ execute_result' = execute(Cell(state, 0))
    /\ trace' = Executed
    /\ UNCHANGED <<program, state, program_counter, parsed_command, fault, io_read,
                   io_written, eprinted>>

(* ------------------------------------------------------------------ *)
(* The arms of the match in _run_machine                                *)
(* ------------------------------------------------------------------ *)

\* What an arm without I/O does to (self.state, program_counter): the new
\* pair, or the panic that interrupts it (why), which leaves both as they were.
Fails(mem, pc, why) == [why |-> why, mem |-> mem, pc |-> pc]

\* self._write_memory(res, value); program_counter += command.1
Stores(mem, pc, command, value) ==
    LET w == _write_memory(mem, command.args[3], value)
    IN  IF w.ok THEN [why |-> "", mem |-> w.mem, pc |-> pc + command.len]
        ELSE Fails(mem, pc, w.why)

\* `b as i32` for a bool
BoolAsI32(b) == IF b THEN 1 ELSE 0

\* Add as it would be with the destination cleared before the operands are read
AddEffect_ClearsFirst(mem, pc, command) ==
    LET cleared == _write_memory(mem, command.args[3], 0).mem
        v1 == _read_memory(cleared, command.args[1])
        v2 == _read_memory(cleared, command.args[2])
    IN  IF ~(v1.ok /\ v2.ok) THEN {Fails(mem, pc, "IndexOutOfBounds")}
        ELSE {IF sum.ok THEN Stores(mem, pc, command, sum.value)
              ELSE Fails(mem, pc, "ArithmeticOverflow") : sum \in AddI32(v1.value, v2.value)}

\* Command::Add(v1, v2, res)
AddEffect(mem, pc, command) ==
    LET v1 == _read_memory(mem, command.args[1])
        v2 == _read_memory(mem, command.args[2])
    IN  IF ~(v1.ok /\ v2.ok) THEN {Fails(mem, pc, "IndexOutOfBounds")}
        ELSE {IF sum.ok THEN Stores(mem, pc, command, sum.value)
              ELSE Fails(mem, pc, "ArithmeticOverflow") : sum \in AddI32(v1.value, v2.value)}

\* Multiply as it would be with `+` written for `*`
MultiplyEffect_Adds(mem, pc, command) ==
    LET v1 == _read_memory(mem, command.args[1])
        v2 == _read_memory(mem, command.args[2])
    IN  IF ~(v1.ok /\ v2.ok) THEN {Fails(mem, pc, "IndexOutOfBounds")}
        ELSE {IF sum.ok THEN Stores(mem, pc, command, sum.value)
              ELSE Fails(mem, pc, "ArithmeticOverflow") : sum \in AddI32(v1.value, v2.value)}

\* Command::Multiply(v1, v2, res)
MultiplyEffect(mem, pc, command) ==
    LET v1 == _read_memory(mem, command.args[1])
        v2 == _read_memory(mem, command.args[2])
    IN  IF ~(v1.ok /\ v2.ok) THEN {Fails(mem, pc, "IndexOutOfBounds")}
        ELSE {IF product.ok THEN Stores(mem, pc, command, product.value)
              ELSE Fails(mem, pc, "ArithmeticOverflow") : product \in MulI32(v1.value, v2.value)}

\* Command::LessThan(arg1, arg2, res)
LessThanEffect(mem, pc, command) ==
    LET t == _two_arg_test(mem, command.args[1], command.args[2], "v1 < v2")
    IN  IF t = <<>> THEN {Fails(mem, pc, "IndexOutOfBounds")}
        ELSE {Stores(mem, pc, command, BoolAsI32(t[1]))}

\* Equal as it would be with the closure of LessThan
EqualEffect_LessThan(mem, pc, command) == LessThanEffect(mem, pc, command)

\* Command::Equal(arg1, arg2, res)
EqualEffect(mem, pc, command) ==
    LET t == _two_arg_test(mem, command.args[1], command.args[2], "v1 == v2")
    IN  IF t = <<>> THEN {Fails(mem, pc, "IndexOutOfBounds")}
        ELSE {Stores(mem, pc, command, BoolAsI32(t[1]))}

\* JmpIfTrue as it would be with the target read before the test
JmpIfTrueEffect_ReadsTargetFirst(mem, pc, command) ==
    LET test == _read_memory(mem, command.args[1])
        ptr == _read_memory(mem, command.args[2])
    IN  IF ~(ptr.ok /\ test.ok) THEN {Fails(mem, pc, "IndexOutOfBounds")}
        ELSE IF test.value # 0 THEN {[why |-> "", mem |-> mem, pc |-> ptr.value]}
             ELSE {[why |-> "", mem |-> mem, pc |-> pc + command.len]}

\* Command::JmpIfTrue(test, ptr)
JmpIfTrueEffect(mem, pc, command) ==
    LET test == _read_memory(mem, command.args[1])
        ptr == _read_memory(mem, command.args[2])
    IN  IF ~test.ok THEN {Fails(mem, pc, "IndexOutOfBounds")}
        ELSE IF test.value # 0
             THEN IF ptr.ok THEN {[why |-> "", mem |-> mem, pc |-> ptr.value]}
                  ELSE {Fails(mem, pc, "IndexOutOfBounds")}
             ELSE {[why |-> "", mem |-> mem, pc |-> pc + command.len]}

\* JmpIfFalse as it would be if it never jumped
JmpIfFalseEffect_FallsThrough(mem, pc, command) ==
    IF ~_read_memory(mem, command.args[1]).ok THEN {Fails(mem, pc, "IndexOutOfBounds")}
    ELSE {[why |-> "", mem |-> mem, pc |-> pc + command.len]}

\* Command::JmpIfFalse(test, ptr)
JmpIfFalseEffect(mem, pc, command) ==
    LET test == _read_memory(mem, command.args[1])
        ptr == _read_memory(mem, command.args[2])
    IN  IF ~test.ok THEN {Fails(mem, pc, "IndexOutOfBounds")}
        ELSE IF test.value = 0
             THEN IF ptr.ok THEN {[why |-> "", mem |-> mem, pc |-> ptr.value]}
                  ELSE {Fails(mem, pc, "IndexOutOfBounds")}
             ELSE {[why |-> "", mem |-> mem, pc |-> pc + command.len]}

\* the arm ends in effect: a panic, or the fetch of the next Command
Applies(effect) ==
    IF effect.why # "" THEN Panics(effect.why) ELSE Continues(effect.mem, effect.pc)

Add ==
    /\ Running("Add")
    /\ \E effect \in AddEffect(state, program_counter, parsed_command) : Applies(effect)
    /\ UNCHANGED <<io_read, io_written, eprinted>>

Multiply ==
    /\ Running("Multiply")
    /\ \E effect \in MultiplyEffect(state, program_counter, parsed_command) : Applies(effect)
    /\ UNCHANGED <<io_read, io_written, eprinted>>

LessThan ==
    /\ Running("LessThan")
    /\ \E effect \in LessThanEffect(state, program_counter, parsed_command) : Applies(effect)
    /\ UNCHANGED <<io_read, io_written, eprinted>>

Equal ==
    /\ Running("Equal")
    /\ \E effect \in EqualEffect(state, program_counter, parsed_command) : Applies(effect)
    /\ UNCHANGED <<io_read, io_written, eprinted>>

JmpIfTrue ==
    /\ Running("JmpIfTrue")
    /\ \E effect \in JmpIfTrueEffect(state, program_counter, parsed_command) : Applies(effect)
    /\ UNCHANGED <<io_read, io_written, eprinted>>

JmpIfFalse ==
    /\ Running("JmpIfFalse")
    /\ \E effect \in JmpIfFalseEffect(state, program_counter, parsed_command) : Applies(effect)
    /\ UNCHANGED <<io_read, io_written, eprinted>>

\* Command::IoRead(pos): self.io.read() returns some input, then
\* self.state[pos] = input
IoRead ==
    /\ Running("IoRead")
    /\ \E input \in InputValues :
          /\ io_read' = Append(io_read, input)
          /\ LET r == _read_input(state, parsed_command.pos, input)
             IN  IF r.ok THEN Continues(r.mem, program_counter + parsed_command.len)
                 ELSE Panics("IndexOutOfBounds")
    /\ UNCHANGED <<io_written, eprinted>>

\* Command::IoWrite(pos)
IoWrite ==
    /\ Running("IoWrite")
    /\ LET w == _write_output(state, parsed_command.pos)
       IN  /\ io_written' = io_written \o w.written
           /\ eprinted' = eprinted \o w.eprinted
    /\ Continues(state, program_counter + parsed_command.len)
    /\ UNCHANGED io_read

Next ==
    \/ Execute
    \/ ReturnZero
    \/ End
    \/ Add
    \/ Multiply
    \/ LessThan
    \/ Equal
    \/ IoRead
    \/ IoWrite
    \/ JmpIfTrue
    \/ JmpIfFalse

Spec == Init /\ [][Next]_vars

(* ------------------------------------------------------------------ *)
(* Properties                                                           *)
(* ------------------------------------------------------------------ *)

\* C1: when the run ended in Halt, the caller of execute has been given
\* Memory[0] of the final memory as the final value.
C1_HaltValueReported ==
    status = "halted" => execute_result.value = <<Cell(state, 0)>>

\* C2: the program [1,9,10,3,2,3,11,0,99,30,40,50] neither faults nor runs
\* on: it is at Halt after its three commands, with Memory[0] = 3500.
C2_RoundTrip ==
    program = RoundTripProgram =>
        /\ status \in {"new", "running", "halted"}
        /\ status = "running" => Len(trace) < 3
        /\ status = "halted" => Len(trace) = 3 /\ Cell(state, 0) = 3500

C2_Witness ==
    program = RoundTripProgram /\ status = "halted" /\ Cell(state, 0) = 3500

\* the step executes an Add or a Multiply whose operands can be read and
\* whose result is in range and can be written
ArithmeticStep(op) ==
    /\ Running(op)
    /\ trace' = Executed
    /\ _read_memory(state, parsed_command.args[1]).ok
    /\ _read_memory(state, parsed_command.args[2]).ok
    /\ parsed_command.args[3].tag = "Register"
    /\ InBounds(state, parsed_command.args[3].value)

\* the two source operands as they are before the step
OldOperand(k) == _read_memory(state, parsed_command.args[k]).value

\* C3: Add and Multiply compute with the values their source operands have
\* before the step and then write the destination, also when the destination
\* is one of the sources or a cell of the instruction itself; the program
\* [1,0,0,0,99] halts with Memory = [2,0,0,0,99].
C3_ReadBeforeWrite ==
    /\ [](program = SelfAddProgram =>
             /\ status \in {"new", "running", "halted"}
             /\ status = "running" => Len(trace) < 2
             /\ status = "halted" => state = <<2, 0, 0, 0, 99>>)
    /\ [][/\ (ArithmeticStep("Add") /\ ~AddOverflows(OldOperand(1), OldOperand(2))) =>
                state' = [state EXCEPT ![parsed_command.args[3].value + 1] =
                                            OldOperand(1) + OldOperand(2)]
          /\ (ArithmeticStep("Multiply") /\ ~MulOverflows(OldOperand(1), OldOperand(2))) =>
                state' = [state EXCEPT ![parsed_command.args[3].value + 1] =
                                            OldOperand(1) * OldOperand(2)]]_vars

C3_Witness ==
    program = SelfAddProgram /\ status = "halted" /\ state = <<2, 0, 0, 0, 99>>

EqualPrograms == {EqualPositionProgram, EqualImmediateProgram}

\* C4: for every input v the two equal-to-8 programs request one input,
\* deliver one output and halt; the output is 1 when v = 8 and 0 otherwise.
C4_EqualToEight ==
    program \in EqualPrograms =>
        /\ status \in {"new", "running", "halted"}
        /\ Len(io_read) <= 1 /\ Len(io_written) <= 1
        /\ status = "running" => Len(trace) < 4
        /\ status = "halted" =>
              /\ Len(io_read) = 1
              /\ io_written = <<IF io_read[1] = 8 THEN 1 ELSE 0>>

C4_Witness ==
    /\ program = EqualImmediateProgram /\ status = "halted"
    /\ io_read = <<8>> /\ io_written = <<1>>

JumpPrograms == {JumpPositionProgram, JumpImmediateProgram}

\* the command fetched at pc has been executed
ExecutedAt(pc) == \E i \in 1..Len(trace) : trace[i].pc = pc

\* C5: for every input v the two jump programs halt after one output, 0 when
\* v = 0 and 1 otherwise; the Add at cell 5 that the taken jump passes over
\* is not executed and the cell it would write keeps its value; a jump step
\* writes no memory and makes no I/O call.
C5_JumpTests ==
    /\ [](program \in JumpPrograms =>
             /\ status \in {"new", "running", "halted"}
             /\ Len(io_read) <= 1 /\ Len(io_written) <= 1
             /\ status = "running" => Len(trace) < 5
             /\ status = "halted" =>
                   /\ Len(io_read) = 1
                   /\ io_written = <<IF io_read[1] = 0 THEN 0 ELSE 1>>
             /\ (program = JumpPositionProgram /\ io_read = <<0>>) =>
                   ~ExecutedAt(5) /\ Cell(state, 13) = 0
             /\ (program = JumpImmediateProgram /\ Len(io_read) = 1 /\ io_read[1] # 0) =>
                   ~ExecutedAt(5) /\ Cell(state, 12) = 1)
    /\ [][(Running("JmpIfTrue") \/ Running("JmpIfFalse")) =>
             /\ state' = state
             /\ <<io_read, io_written, eprinted>>' = <<io_read, io_written, eprinted>>]_vars

C5_Witness ==
    /\ program = JumpPositionProgram /\ status = "halted"
    /\ io_read = <<0>> /\ io_written = <<0>> /\ ~ExecutedAt(5)

\* the operand cell of the instruction at the program counter
OperandCell == Cell(state, program_counter + 1)

\* C6: Input and Output use their operand cell p as an address whatever the
\* mode digits of the instruction word: Output delivers Memory[p] and Input
\* stores the value received at Memory[p] (p inside the memory).
C6_IoOperandIsAddress ==
    [][/\ (Running("IoWrite") /\ InBounds(state, OperandCell)) =>
             io_written' = Append(io_written, Cell(state, OperandCell))
       /\ (Running("IoRead") /\ InBounds(state, OperandCell)) =>
             /\ Len(io_read') = Len(io_read) + 1
             /\ state' = [state EXCEPT ![OperandCell + 1] = io_read'[Len(io_read')]]]_vars

\* an Output word with mode digit 1 and operand 0 has delivered Memory[0]
C6_Witness ==
    /\ Len(trace) >= 1 /\ trace[1].word = 104 /\ trace[1].op = "IoWrite"
    /\ Cell(program, 1) = 0
    /\ Len(io_written) >= 1 /\ io_written[1] = 104

\* how many commands op the trace holds
Count(op) == Cardinality({i \in 1..Len(trace) : trace[i].op = op})

\* C7: io.read is called once by each executed Input and by nothing else,
\* io.write once by each executed Output whose source is inside the memory
\* and by nothing else; each call extends the sequence by the one value
\* Memory[src] of that moment, so the values delivered are in execution
\* order, none dropped, doubled or reordered.
C7_IoCallsFollowExecution ==
    /\ [](/\ Len(io_read) = Count("IoRead")
          /\ Len(io_written) + Len(eprinted) = Count("IoWrite"))
    /\ [][/\ io_read' # io_read =>
                /\ Running("IoRead")
                /\ Len(io_read') = Len(io_read) + 1
                /\ SubSeq(io_read', 1, Len(io_read)) = io_read
          /\ io_written' # io_written =>
                /\ Running("IoWrite")
                /\ io_written' = Append(io_written, Cell(state, parsed_command.pos))
          /\ (Running("IoWrite") /\ InBounds(state, parsed_command.pos)) =>
                io_written' = Append(io_written, Cell(state, parsed_command.pos))
          /\ Running("IoRead") => Len(io_read') = Len(io_read) + 1]_vars

\* three outputs, the last of them the value read in between
C7_Witness ==
    /\ Len(io_read) = 1 /\ Len(io_written) = 3
    /\ io_written[1] # io_written[2]
    /\ io_written[3] = io_read[1] /\ io_written[3] # io_written[2]

\* the commands with source operands
SourceCommands == {"Add", "Multiply", "LessThan", "Equal", "JmpIfTrue", "JmpIfFalse"}

\* what the arm of command does
EffectOf(mem, pc, command) ==
    CASE command.op = "Add" -> AddEffect(mem, pc, command)
      [] command.op = "Multiply" -> MultiplyEffect(mem, pc, command)
      [] command.op = "LessThan" -> LessThanEffect(mem, pc, command)
      [] command.op = "Equal" -> EqualEffect(mem, pc, command)
      [] command.op = "JmpIfTrue" -> JmpIfTrueEffect(mem, pc, command)
      [] command.op = "JmpIfFalse" -> JmpIfFalseEffect(mem, pc, command)

\* C8: a command with the source operand Immediate(v) does what the same
\* command does with that operand Position(a) for any a with Memory[a] = v;
\* [1101,100,-1,4,0] writes 99 to address 4 and halts there, as the
\* position-mode Add over the cells 100 and -1 does.
C8_ImmediateAsPosition ==
    /\ program \in {ImmediateAddProgram, PositionAddProgram} =>
          /\ status \in {"new", "running", "halted"}
          /\ status = "running" => Len(trace) < 2
          /\ Len(trace) >= 1 => trace[1].op = "Add" /\ Cell(state, 4) = 99
          /\ status = "halted" => Len(trace) = 2 /\ trace[2].pc = 4
    /\ (status = "running" /\ parsed_command.tag = "Some"
           /\ parsed_command.op \in SourceCommands) =>
          \A k \in 1..2 : \A a \in 0..(Len(state) - 1) :
              (parsed_command.args[k].tag = "Immediate"
                 /\ Cell(state, a) = parsed_command.args[k].value) =>
                EffectOf(state, program_counter,
                         [parsed_command EXCEPT !.args[k] = [tag |-> "Register", value |-> a]])
                  = EffectOf(state, program_counter, parsed_command)

C8_Witness ==
    /\ program = ImmediateAddProgram /\ status = "halted"
    /\ trace[1].word = 1101 /\ Cell(state, 4) = 99

\* the word is negative or its two low digits are no opcode of the machine
MalformedWord(w) == w < 0 \/ (w % 100) \notin ((1..8) \cup {99})

\* C9: with a negative word or an unknown opcode at the program counter the
\* run does not come back to the caller as a normal return with a final value.
C9_DecodeFaultNotReturned ==
    (status # "new" /\ InBounds(state, program_counter)
       /\ MalformedWord(Cell(state, program_counter))) =>
        (run_result = <<>> /\ ~execute_result.returned)

\* the three mode digits of a word of up to five digits
ModeDigitsOf(w) == {(w \div 100) % 10, (w \div 1000) % 10, (w \div 10000) % 10}

\* C10: no instruction whose word has a mode digit other than 0 or 1 is
\* ever executed, whatever its opcode.
C10_BadModeDigitRejected ==
    \A i \in 1..Len(trace) :
        (trace[i].word >= 0 /\ trace[i].word < 100000) =>
            ModeDigitsOf(trace[i].word) \subseteq {0, 1}

\* the commands that write a destination
WritingCommands == {"Add", "Multiply", "LessThan", "Equal"}

\* the command at hand writes, and its destination operand is Immediate
ImmediateDestination ==
    /\ \E op \in WritingCommands : Running(op)
    /\ parsed_command.args[3].tag = "Immediate"

\* both source operands of the command at hand can be read
SourcesReadable ==
    /\ _read_memory(state, parsed_command.args[1]).ok
    /\ _read_memory(state, parsed_command.args[2]).ok

\* the result of the command at hand is an i32
ResultInRange ==
    /\ parsed_command.op = "Add" => ~AddOverflows(OldOperand(1), OldOperand(2))
    /\ parsed_command.op = "Multiply" => ~MulOverflows(OldOperand(1), OldOperand(2))

\* C11 as stated: a writing command with an Immediate destination always
\* ends the run with the write-to-immediate fault and changes no cell.
C11_AlwaysWriteToImmediate ==
    [][ImmediateDestination =>
          status' = "panicked" /\ fault' = "CantWriteValue" /\ state' = state]_vars

\* C11 as amended: a writing command with an Immediate destination ends the
\* run, changes no cell and is followed by no command; the fault is the
\* write-to-immediate one when both sources can be read and the result is
\* in range, and otherwise that of the read or of the arithmetic.
C11_WriteToImmediate ==
    [][/\ ImmediateDestination =>
             /\ status' = "panicked"
             /\ state' = state /\ program_counter' = program_counter
             /\ <<io_read, io_written, eprinted>>' = <<io_read, io_written, eprinted>>
             /\ (SourcesReadable /\ ResultInRange) => fault' = "CantWriteValue"
             /\ fault' \in {"CantWriteValue", "IndexOutOfBounds", "ArithmeticOverflow"}
       /\ status # "panicked"]_vars

C11_Witness ==
    /\ status = "panicked" /\ fault = "CantWriteValue"
    /\ Len(trace) >= 1 /\ trace[Len(trace)].op \in WritingCommands
    /\ trace[Len(trace)].pc = program_counter

\* C12: while the loop runs the program counter is an index of the memory,
\* and so is the place of every command executed; a counter that an advance
\* or a taken jump puts outside the memory ends the run with the fault of
\* the fetch, never with a return and never with a command fetched there.
C12_ProgramCounterInBounds ==
    /\ status = "running" => InBounds(state, program_counter)
    /\ \A i \in 1..Len(trace) : InBounds(state, trace[i].pc)
    /\ (status # "new" /\ ~InBounds(state, program_counter)) =>
          /\ status = "panicked"
          /\ parsed_command.tag = "Panic"
          /\ fault \in {"SliceRange", "IndexOutOfBounds", "ArithmeticOverflow"}
          /\ run_result = <<>> /\ ~execute_result.returned

\* the run went past the last cell
C12_Witness ==
    /\ status = "panicked" /\ program_counter = Len(state)
    /\ Len(trace) >= 1 /\ trace[Len(trace)].op \in WritingCommands

\* C13: a read or write at an address outside the memory ends the run as
\* a fault handed to the caller of execute, not as an abort of the process.
C13_OutOfBoundsReturnedAsFault ==
    (fault = "IndexOutOfBounds" /\ parsed_command.tag = "Some") =>
        (status # "panicked" /\ execute_result.returned)

\* C14: once an Output has found its source outside the memory the run is
\* over: that Output is the last command of the trace, the program counter
\* still points at it and the loop no longer runs.
C14_StopsAfterOutputFault ==
    eprinted # <<>> =>
        /\ status # "running"
        /\ trace[Len(trace)].op = "IoWrite"
        /\ program_counter = trace[Len(trace)].pc

\* the cells an instruction of the opcode takes
LengthOf(opcode) ==
    IF opcode \in {1, 2, 7, 8} THEN 4
    ELSE IF opcode \in {5, 6} THEN 3
    ELSE IF opcode \in {3, 4} THEN 2
    ELSE 1

\* the opcode of each Command
OpcodeOf(op) ==
    CASE op = "Add" -> 1 [] op = "Multiply" -> 2 [] op = "IoRead" -> 3 [] op = "IoWrite" -> 4
      [] op = "JmpIfTrue" -> 5 [] op = "JmpIfFalse" -> 6 [] op = "LessThan" -> 7
      [] op = "Equal" -> 8 [] op = "End" -> 99

\* the word at pc decodes to an opcode with operands, and fewer cells
\* remain from pc to the end of mem than its instruction takes
Truncated(mem, pc) ==
    /\ InBounds(mem, pc)
    /\ LET op_vec == _generate_operation_vec(Cell(mem, pc))
       IN  /\ op_vec # <<>>
           /\ op_vec[1] \in 1..8
           /\ Len(mem) - pc < LengthOf(op_vec[1])

\* the operands of the instruction at pc that are inside mem have the mode
\* digits 0 or 1 (Input and Output have no mode)
PresentModesValid(mem, pc) ==
    LET op_vec == _generate_operation_vec(Cell(mem, pc))
    IN  \/ op_vec[1] \in {3, 4}
        \/ \A k \in 1..(Len(mem) - pc - 1) : op_vec[k + 1] \in {0, 1}

C16_OneCellHalts ==
    (program = <<99>> /\ status # "new") =>
        (status = "halted" /\ run_result = <<99>>)

\* C17: a non-negative word w decodes to the opcode w mod 100 and to the
\* modes of operand 1, 2 and 3 given by its hundreds, thousands and
\* ten-thousands digit.
C17_DecodeByDigits ==
    (status = "running" /\ Cell(state, program_counter) >= 0) =>
        LET w == Cell(state, program_counter)
        IN  _generate_operation_vec(w) =
                <<w % 100, (w \div 100) % 10, (w \div 1000) % 10, (w \div 10000) % 10>>

\* the arm of the command at hand ran to its end (a panic, if any, is that
\* of the fetch that follows it)
ArmCompleted == status' = "running" \/ parsed_command'.tag = "Panic"

\* the test and the target operand of the jump at hand, read before the step
JumpTest == _read_memory(state, parsed_command.args[1])

JumpTarget == _read_memory(state, parsed_command.args[2])

\* C18: an instruction that runs to its end leaves the program counter at
\* old + 4 (Add, Multiply, LessThan, Equal), old + 2 (Input, Output), and
\* for a jump at read(target) when taken and old + 3 when not; JmpIfTrue is
\* taken exactly when read(cond) # 0, JmpIfFalse exactly when it is 0, and a
\* jump not taken runs to its end whether or not its target can be read.
C18_ProgramCounterRule ==
    [][/\ ((\E op \in WritingCommands : Running(op)) /\ ArmCompleted) =>
             program_counter' = program_counter + 4
       /\ ((Running("IoRead") \/ Running("IoWrite")) /\ ArmCompleted) =>
             program_counter' = program_counter + 2
       /\ (Running("JmpIfTrue") /\ JumpTest.ok) =>
             IF JumpTest.value # 0
             THEN ArmCompleted => (JumpTarget.ok /\ program_counter' = JumpTarget.value)
             ELSE ArmCompleted /\ program_counter' = program_counter + 3
       /\ (Running("JmpIfFalse") /\ JumpTest.ok) =>
             IF JumpTest.value = 0
             THEN ArmCompleted => (JumpTarget.ok /\ program_counter' = JumpTarget.value)
             ELSE ArmCompleted /\ program_counter' = program_counter + 3]_vars

\* [105,0,99,99]: the jump is not taken, its target address 99 is outside
\* the memory, and the next command is fetched at 3
C18_Witness ==
    /\ Len(trace) >= 2
    /\ trace[1].op = "JmpIfTrue" /\ trace[1].word = 105
    /\ Cell(program, 1) = 0 /\ Cell(program, 2) = 99
    /\ trace[2].pc = 3

\* C19: the Command the loop holds is the decoding of the memory as it is
\* now at the program counter, so a cell that an earlier instruction wrote
\* is decoded with the value written.
C19_DecodedFromCurrentMemory ==
    status = "running" => parsed_command \in Fetch(state, program_counter)

\* a command was executed from a cell whose word an earlier command wrote,
\* and the Command at hand comes from a written cell as well
C19_Witness ==
    /\ \E i \in 1..Len(trace) : trace[i].word # Cell(program, trace[i].pc)
    /\ status = "running"
    /\ Cell(state, program_counter) # Cell(program, program_counter)
    /\ parsed_command.tag = "Some"

\* the addresses whose cell the step changes
Changed == {a \in 0..(Len(state) - 1) : state'[a + 1] # state[a + 1]}

\* C20: the memory keeps its length; a step changes at most one cell: Add,
\* Multiply, LessThan and Equal only the cell at their destination address
\* (LessThan and Equal leave 0 or 1 there when they run to their end), Input
\* only the cell at its address, and Output, the jumps, Halt and the
\* entry and exit of the loop none.
C20_MemoryFrame ==
    /\ [](Len(state) = Len(program))
    /\ [][/\ Len(state') = Len(state)
          /\ Cardinality(Changed) <= 1
          /\ (\E op \in WritingCommands : Running(op)) =>
                Changed \subseteq {Cell(state, program_counter + 3)}
          /\ ((Running("LessThan") \/ Running("Equal")) /\ ArmCompleted) =>
                state'[Cell(state, program_counter + 3) + 1] \in {0, 1}
          /\ Running("IoRead") => Changed \subseteq {Cell(state, program_counter + 1)}
          /\ ~(\E op \in WritingCommands \cup {"IoRead"} : Running(op)) => state' = state]_vars

\* a LessThan has written its destination and the run went on to Halt
C20_Witness ==
    /\ status = "halted" /\ Len(trace) = 2
    /\ trace[1].op = "LessThan"
    /\ state # program

====
